---- MODULE Spec2Model ----
(***************************************************************************)
(* Model of the live-assist backend: the tool-call extractor of            *)
(* agent_executor.py, the process-window handler of lambda_function.py and *)
(* the finalize-call handler of post-call-analytics.py.                    *)
(***************************************************************************)
EXTENDS Integers, Sequences, FiniteSets, TLC

(***************************************************************************)
(* Bounds of the model.                                                    *)
(***************************************************************************)
\* longest trace the extractor is applied to
MaxTraceLen == 4
\* most requested actions in a trace: an action and its result take two entries
MaxActions == MaxTraceLen \div 2
\* most process-window requests in a run
MaxRequests == 3
\* most finalize-call requests in a run
MaxFinalizes == 2

(***************************************************************************)
(* JSON values and JSON text.                                              *)
(*                                                                         *)
(* A Python value is a record [t, s, l]: a string (t = "str"), a list of   *)
(* strings (t = "list"), an argument map (t = "dict") or an object that    *)
(* json.dumps cannot serialise (t = "object", the AIMessage).  A JSON text *)
(* is a record [wf, val]: wf says whether json.loads can decode it.        *)
(***************************************************************************)
JStr(x) == [t |-> "str", s |-> x, l |-> <<>>]
JList(xs) == [t |-> "list", s |-> "", l |-> xs]
JDict(x) == [t |-> "dict", s |-> x, l |-> <<>>]
AIMessageObject == [t |-> "object", s |-> "AIMessage", l |-> <<>>]
\* a key that a decoded dict does not hold
Absent == [t |-> "absent", s |-> "", l |-> <<>>]

\* json.dumps: defined on serialisable values only
Serialisable(v) == v.t \in {"str", "list", "dict"}
Dumps(v) == [wf |-> TRUE, val |-> v]
\* json.loads: defined on well-formed text only
Decodable(text) == text.wf
Loads(text) == text.val

(***************************************************************************)
(* Tool results (agent_toolkit.py): serialised {status, message} and, for  *)
(* search_company_manuals, {status, message, sources}.                     *)
(***************************************************************************)
ManualsTool == "search_company_manuals"
ToolNames == {ManualsTool, "send_email"}
ToolCallIds == {"call_1", "call_2"}

ToolResult(status, message, sources) ==
  [status |-> status, message |-> message, sources |-> sources]

ResultDicts ==
  { ToolResult("success", JStr("msg"), Absent),
    ToolResult("failed", JStr("err"), Absent),
    ToolResult("success", JStr("msg"), JList(<<"manual">>)) }

NotJson == [wf |-> FALSE, val |-> ToolResult("", Absent, Absent)]
Contents == {Dumps(r) : r \in ResultDicts} \cup {NotJson}

(***************************************************************************)
(* Trace entries (agent_executor.py, extract_tool_calls_from_trace).       *)
(***************************************************************************)
NoContent == [wf |-> FALSE, val |-> ToolResult("", Absent, Absent)]
\* the argument map of an action names the action it belongs to
RequestedAction(id, name) == [id |-> id, name |-> name, args |-> JDict(id)]
Actions == {RequestedAction(id, n) : id \in ToolCallIds, n \in ToolNames}

AIMessage(calls) ==
  [type |-> "ai", tool_calls |-> calls, tool_call_id |-> "", content |-> NoContent]
ToolMessage(id, content) ==
  [type |-> "tool", tool_calls |-> <<>>, tool_call_id |-> id, content |-> content]
HumanMessage ==
  [type |-> "human", tool_calls |-> <<>>, tool_call_id |-> "", content |-> NoContent]

\* hasattr(message, 'tool_calls') and hasattr(next_msg, 'tool_call_id')
HasToolCalls(m) == m.type = "ai"
HasToolCallId(m) == m.type = "tool"

ToolCall(name, input, output, status) ==
  [name |-> name, input |-> input, output |-> output, status |-> status]

\* the outcome of the extractor: the records, or the exception it raised
Returned(calls) == [ok |-> TRUE, calls |-> calls, err |-> ""]
Raised(e) == [ok |-> FALSE, calls |-> <<>>, err |-> e]

(***************************************************************************)
(* Agent.extract_tool_calls_from_trace (agent_executor.py, lines 136-177). *)
(*                                                                         *)
(* `message` is the Python variable of that name: the loop variable of the *)
(* scan, which the matched branch rebinds to the decoded result field and  *)
(* which is what json.dumps(message) serialises as the record's output.    *)
(***************************************************************************)
\* the condition of lines 156-159, for the entry at (1-based) index i
NextMatches(messages, i, tool_call) ==
  /\ i + 1 <= Len(messages)
  /\ HasToolCallId(messages[i + 1])
  /\ messages[i + 1].tool_call_id = tool_call.id

\* MatchedMessage with the status left at its default
MatchedMessageDefaultStatus(tool_call, content) ==
  IF ~Decodable(content) THEN [ok |-> FALSE, err |-> "JSONDecodeError", value |-> Absent, status |-> ""]
  ELSE LET tool_response == Loads(content)
           field == IF tool_call.name = ManualsTool /\ tool_response.status = "success"
                    THEN tool_response.sources
                    ELSE tool_response.message
       IN IF field = Absent
          THEN [ok |-> FALSE, err |-> "KeyError", value |-> Absent, status |-> "success"]
          ELSE [ok |-> TRUE, err |-> "", value |-> field, status |-> "success"]

\* MatchedMessage taking the message field for every tool
MatchedMessageAlwaysMessage(tool_call, content) ==
  IF ~Decodable(content) THEN [ok |-> FALSE, err |-> "JSONDecodeError", value |-> Absent, status |-> ""]
  ELSE LET tool_response == Loads(content)
       IN IF tool_response.message = Absent
          THEN [ok |-> FALSE, err |-> "KeyError", value |-> Absent, status |-> tool_response.status]
          ELSE [ok |-> TRUE, err |-> "", value |-> tool_response.message,
                status |-> tool_response.status]

\* lines 161-166: the value `message` is rebound to, or the exception
MatchedMessage(tool_call, content) ==
  IF ~Decodable(content) THEN [ok |-> FALSE, err |-> "JSONDecodeError", value |-> Absent, status |-> ""]
  ELSE LET tool_response == Loads(content)
           status == tool_response.status
           field == IF tool_call.name = ManualsTool /\ status = "success"
                    THEN tool_response.sources
                    ELSE tool_response.message
       IN IF field = Absent
          THEN [ok |-> FALSE, err |-> "KeyError", value |-> Absent, status |-> status]
          ELSE [ok |-> TRUE, err |-> "", value |-> field, status |-> status]

\* lines 152-175: one requested action; `message` is the variable's value before
CallStep(messages, i, tool_call, message) ==
  LET matched == NextMatches(messages, i, tool_call)
      m == IF matched THEN MatchedMessage(tool_call, messages[i + 1].content)
           ELSE [ok |-> TRUE, err |-> "", value |-> message, status |-> "success"]
  IN IF ~m.ok THEN [ok |-> FALSE, err |-> m.err, message |-> message,
                    rec |-> ToolCall("", Dumps(Absent), Dumps(Absent), "")]
     ELSE IF ~Serialisable(m.value)
     THEN [ok |-> FALSE, err |-> "TypeError", message |-> m.value,
           rec |-> ToolCall("", Dumps(Absent), Dumps(Absent), "")]
     ELSE [ok |-> TRUE, err |-> "", message |-> m.value,
           rec |-> ToolCall(tool_call.name, Dumps(tool_call.args),
                            Dumps(m.value), m.status)]

\* line 151: the loop over one assistant entry's requested actions
RECURSIVE ExtractCalls(_, _, _, _, _, _)
ExtractCalls(messages, i, calls, j, message, acc) ==
  IF j > Len(calls) THEN Returned(acc)
  ELSE LET st == CallStep(messages, i, calls[j], message)
       IN IF ~st.ok THEN Raised(st.err)
          ELSE ExtractCalls(messages, i, calls, j + 1, st.message, Append(acc, st.rec))

\* line 145: the scan over the trace entries
RECURSIVE ExtractFrom(_, _, _)
ExtractFrom(messages, i, acc) ==
  IF i > Len(messages) THEN Returned(acc)
  ELSE IF HasToolCalls(messages[i]) /\ Len(messages[i].tool_calls) > 0
  THEN LET r == ExtractCalls(messages, i, messages[i].tool_calls, 1,
                             AIMessageObject, acc)
       IN IF r.ok THEN ExtractFrom(messages, i + 1, r.calls) ELSE r
  ELSE ExtractFrom(messages, i + 1, acc)

extract_tool_calls_from_trace(messages) == ExtractFrom(messages, 1, <<>>)

(***************************************************************************)
(* The request of the process-window handler (lambda_function.py).         *)
(* A payload field is present or missing; window_num is the raw JSON       *)
(* value, which int() converts.                                            *)
(***************************************************************************)
Present(v) == [present |-> TRUE, v |-> v]
MissingString == [present |-> FALSE, v |-> ""]
MissingTurns == [present |-> FALSE, v |-> <<>>]
MissingNumber == [present |-> FALSE, kind |-> "none", n |-> 0, frac |-> 0]
RawInt(n) == [present |-> TRUE, kind |-> "int", n |-> n, frac |-> 0]
\* the JSON number n.frac, with frac > 0 and n >= 0
RawFloat(n, frac) == [present |-> TRUE, kind |-> "float", n |-> n, frac |-> frac]
\* a JSON string holding no number
RawText == [present |-> TRUE, kind |-> "str", n |-> 0, frac |-> 0]
RawNull == [present |-> TRUE, kind |-> "null", n |-> 0, frac |-> 0]

\* int(payload["window_num"]), line 70: truncation of a float, ValueError
\* for a string that holds no number, TypeError for null
IntConverts(raw) == raw.kind \in {"int", "float"}
PyInt(raw) == raw.n

CallIds == {"c1", "c2"}
WindowNumbers == {0, 1, 2}
Turn(speaker, transcript) == [speaker |-> speaker, transcript |-> transcript]
SomeTurns == <<Turn("client", "my dashboard is broken")>>
ClientEmail == "sarah@x.com"
\* another customer
OtherEmail == "tom@y.com"

Payload(call_id, window_num, turns, client_email) ==
  [call_id |-> call_id, window_num |-> window_num, turns |-> turns,
   client_email |-> client_email]
Event(payload) == [body |-> Dumps(payload)]
\* a body that is no JSON text
BadBodyEvent ==
  [body |-> [wf |-> FALSE,
             val |-> Payload(MissingString, MissingNumber, MissingTurns, MissingString)]]

ValidEvents ==
  {Event(Payload(Present(c), RawInt(w), Present(SomeTurns), Present(ClientEmail))) :
     c \in CallIds, w \in WindowNumbers}

\* the valid requests of one call
CallEvents ==
  {Event(Payload(Present("c1"), RawInt(w), Present(SomeTurns), Present(ClientEmail))) :
     w \in WindowNumbers}

\* requests that depart from a valid one in one field
EdgeEvents ==
  {Event(Payload(Present("c1"), w, Present(SomeTurns), Present(ClientEmail))) :
     w \in {RawInt(-1), RawFloat(1, 5), RawText, RawNull, MissingNumber}}
    \cup {Event(Payload(Present("c1"), RawInt(0), t, Present(ClientEmail))) :
            t \in {MissingTurns, Present(<<>>)}}
    \cup {Event(Payload(Present("c1"), RawInt(0), Present(SomeTurns), MissingString)),
          Event(Payload(MissingString, RawInt(0), Present(SomeTurns), Present(ClientEmail))),
          BadBodyEvent}

\* ParseEvent reading client_email with a default instead of requiring it
ParseEventOptionalEmail(event) ==
  LET payload == Loads(event.body)
      ok == /\ Decodable(event.body)
            /\ payload.call_id.present
            /\ payload.window_num.present
            /\ IntConverts(payload.window_num)
            /\ payload.turns.present
  IN [ok |-> ok,
      call_id |-> payload.call_id.v,
      window_num |-> PyInt(payload.window_num),
      turns |-> payload.turns.v,
      client_email |-> payload.client_email.v]

\* lines 67-75: the parsed fields, or ok = FALSE for the 400 branch
ParseEvent(event) ==
  LET payload == Loads(event.body)
      ok == /\ Decodable(event.body)
            /\ payload.call_id.present
            /\ payload.window_num.present
            /\ IntConverts(payload.window_num)
            /\ payload.turns.present
            /\ payload.client_email.present
  IN [ok |-> ok,
      call_id |-> payload.call_id.v,
      window_num |-> PyInt(payload.window_num),
      turns |-> payload.turns.v,
      client_email |-> payload.client_email.v]

(***************************************************************************)
(* The stores: the call-records table, keyed by (call_id, window_number),  *)
(* and the call-analytics table.  An attribute written as {"S": ...} holds *)
(* JSON text.  created_at of a window item is not modelled.                *)
(***************************************************************************)
WindowItem(call_id, window_num, turns, ai_tips, activity_feed) ==
  [call_id |-> call_id, window_number |-> window_num, turns |-> Dumps(turns),
   aiTips |-> Dumps(ai_tips), activityFeed |-> Dumps(activity_feed)]

\* PutItem as a conditional put that keeps an item already stored under the key
PutItemIfAbsent(table, item) ==
  IF \E it \in table : it.call_id = item.call_id /\ it.window_number = item.window_number
  THEN table ELSE table \cup {item}

\* put_item: the item replaces the one with its key
PutItem(table, item) ==
  {it \in table : ~(it.call_id = item.call_id /\ it.window_number = item.window_number)}
    \cup {item}

\* a query's items come in ascending order of the sort key
RECURSIVE SortByWindow(_)
SortByWindow(items) ==
  IF items = {} THEN <<>>
  ELSE LET first == CHOOSE x \in items : \A y \in items : x.window_number <= y.window_number
       IN <<first>> \o SortByWindow(items \ {first})

\* QueryBefore with <= in place of <
QueryUpTo(table, call_id, current_window) ==
  SortByWindow({it \in table : it.call_id = call_id /\ it.window_number <= current_window})

\* QueryBefore returning the newest earlier window only
QueryLatestBefore(table, call_id, current_window) ==
  LET items == SortByWindow({it \in table : it.call_id = call_id
                                           /\ it.window_number < current_window})
  IN IF items = <<>> THEN <<>> ELSE <<items[Len(items)]>>

\* lines 24-32: KeyConditionExpression "call_id = :cid AND window_number < :w"
QueryBefore(table, call_id, current_window) ==
  SortByWindow({it \in table : it.call_id = call_id /\ it.window_number < current_window})

\* lines 21-35: the Items of the query, or [] on a ClientError
get_call_history(table, call_id, current_window, client_error) ==
  IF client_error THEN <<>> ELSE QueryBefore(table, call_id, current_window)

\* lines 79-85
HistoryEntry(item) ==
  [turns |-> Loads(item.turns), aiTips |-> Loads(item.aiTips),
   activityFeed |-> Loads(item.activityFeed)]
BuildCallHistory(history_items) ==
  [k \in 1..Len(history_items) |-> HistoryEntry(history_items[k])]

\* the memory dict: {} or a MemoryBox
EmptyDict == [present |-> FALSE, deliverables |-> <<>>, improvementAreas |-> <<>>]
MemoryBox(deliverables, improvementAreas) ==
  [present |-> TRUE, deliverables |-> deliverables, improvementAreas |-> improvementAreas]
\* a typed attribute value of the low-level client
AttrS(text) == [type |-> "S", text |-> text]
AttrM(map) == [type |-> "M", text |-> Dumps(map)]
\* item.get("memory", {}).get("S", "{}"), line 54
MemoryText(attr) == IF attr.type = "S" THEN attr.text ELSE Dumps(EmptyDict)

\* lines 38-62.  Limit=1 makes the scan evaluate one item, `first`, and the
\* filter is applied to it afterwards.
get_past_call_summary(table, first, client_email, client_error) ==
  IF client_error \/ table = {} THEN EmptyDict
  ELSE IF first.client_email = client_email THEN Loads(MemoryText(first.memory))
  ELSE EmptyDict

(***************************************************************************)
(* The reasoning service: what agent.invoke returns (line 183).            *)
(***************************************************************************)
AiTip(tag, content) == [tag |-> tag, content |-> content]
TipA == AiTip("Urgent", "A")
TipB == AiTip("Suggestion", "B")
TipC == AiTip("Info", "C")

AgentResponse(tips, messages) == [raises |-> FALSE, aiTips |-> tips, messages |-> messages]
AgentFailure == [raises |-> TRUE, aiTips |-> <<>>, messages |-> <<>>]
NoAgentResponse == [raises |-> FALSE, aiTips |-> <<>>, messages |-> <<>>]

ManualsCall == RequestedAction("call_1", ManualsTool)
ManualsResult == Dumps(ToolResult("success", JStr("msg"), JList(<<"manual">>)))
TraceNoTools == <<HumanMessage, AIMessage(<<>>)>>
TraceMatched ==
  <<HumanMessage, AIMessage(<<ManualsCall>>), ToolMessage("call_1", ManualsResult),
    AIMessage(<<>>)>>
TraceNotJson ==
  <<HumanMessage, AIMessage(<<ManualsCall>>), ToolMessage("call_1", NotJson)>>
\* two actions requested by one assistant entry, their results after it
EmailCall == RequestedAction("call_2", "send_email")
EmailResult == Dumps(ToolResult("success", JStr("msg"), Absent))
TraceParallel ==
  <<HumanMessage, AIMessage(<<ManualsCall, EmailCall>>),
    ToolMessage("call_1", ManualsResult), ToolMessage("call_2", EmailResult),
    AIMessage(<<>>)>>

GoodResponses ==
  {AgentResponse(<<TipA>>, TraceNoTools), AgentResponse(<<TipB>>, TraceMatched),
   AgentResponse(<<TipC>>, TraceParallel)}
AgentResponses ==
  GoodResponses \cup {AgentResponse(<<TipA>>, TraceNotJson), AgentFailure}

\* lines 179-188: (aiTips, tool_calls), or the exception
analyze_transcript(response) ==
  LET ex == extract_tool_calls_from_trace(response.messages)
  IN IF response.raises THEN [ok |-> FALSE, ai_tips |-> <<>>, tool_calls |-> <<>>]
     ELSE IF ~ex.ok THEN [ok |-> FALSE, ai_tips |-> <<>>, tool_calls |-> <<>>]
     ELSE [ok |-> TRUE, ai_tips |-> response.aiTips, tool_calls |-> ex.calls]

\* the handler's responses
ErrorResponse(code, error) ==
  [statusCode |-> code, error |-> error, aiTips |-> <<>>, activityFeed |-> <<>>]
ResultResponse(ai_tips, activity_feed) ==
  [statusCode |-> 200, error |-> "", aiTips |-> ai_tips, activityFeed |-> activity_feed]
NoResponse == ErrorResponse(0, "")

(***************************************************************************)
(* The finalize-call handler (post-call-analytics.py): its request, the    *)
(* summarization service and the analytics item it writes.                 *)
(***************************************************************************)
\* body.get("call_id"), body.get("client_email"): None when missing
FinalizeBody(call_id, client_email) == [call_id |-> call_id, client_email |-> client_email]
FinalizeEvent(body) == [body |-> Dumps(body)]
BadFinalizeEvent ==
  [body |-> [wf |-> FALSE, val |-> FinalizeBody(MissingString, MissingString)]]
FinalizeEvents ==
  {FinalizeEvent(FinalizeBody(Present("c1"), Present(ClientEmail))),
   FinalizeEvent(FinalizeBody(Present("c2"), Present(OtherEmail)))}
    \cup {FinalizeEvent(FinalizeBody(MissingString, Present(ClientEmail))),
          FinalizeEvent(FinalizeBody(Present("c1"), MissingString)),
          BadFinalizeEvent}

\* QueryCall with ScanIndexForward=False
RECURSIVE Reverse(_)
Reverse(q) == IF q = <<>> THEN <<>> ELSE Reverse(Tail(q)) \o <<Head(q)>>
QueryCallDescending(table, call_id) ==
  Reverse(SortByWindow({it \in table : it.call_id = call_id}))

\* lines 35-39: Key("call_id").eq(call_id), ScanIndexForward=True
QueryCall(table, call_id) == SortByWindow({it \in table : it.call_id = call_id})

\* lines 41-48: the timeline handed to the summarization service
TimelineEntry(win) ==
  [activityFeed |-> Loads(win.activityFeed), aiTips |-> Loads(win.aiTips),
   turns |-> Loads(win.turns)]
BuildPayload(windows) == [k \in 1..Len(windows) |-> TimelineEntry(windows[k])]

\* what chain.invoke gives (lines 57-58): an AnalyticsOutput, an exception
\* of the service, or the parser's OutputParserException, a ValueError
AnalyticsOutput(insight, memory) ==
  [outcome |-> "ok", keyInsights |-> insight, memory |-> memory]
NoAnalytics == [outcome |-> "none", keyInsights |-> "", memory |-> EmptyDict]
SummaryOutcomes ==
  {AnalyticsOutput("resolved", MemoryBox(<<"send invoice">>, <<"empathy">>)),
   AnalyticsOutput("escalated", MemoryBox(<<"call back">>, <<>>)),
   [NoAnalytics EXCEPT !.outcome = "UpstreamError"],
   [NoAnalytics EXCEPT !.outcome = "OutputParserException"]}

\* lines 61-66: the item of the resource API, whose dict becomes a map.
\* The table holds one item per (client_email, created_at); PutAnalyticsByClient
\* is the put of a table keyed by client_email alone.
AnalyticsItem(client_email, created_at, call_id, analytics) ==
  [client_email |-> client_email, created_at |-> created_at, call_id |-> call_id,
   keyInsights |-> analytics.keyInsights, memory |-> AttrM(analytics.memory)]
PutAnalyticsByClient(table, item) ==
  {it \in table : it.client_email # item.client_email} \cup {item}
PutAnalytics(table, item) ==
  {it \in table : ~(it.client_email = item.client_email
                     /\ it.created_at = item.created_at)} \cup {item}

FinalizeError(code, error) == [statusCode |-> code, error |-> error, body |-> NoAnalytics]
FinalizeResult(analytics) == [statusCode |-> 200, error |-> "", body |-> analytics]

IdleFinalize ==
  [pc |-> "idle", event |-> BadFinalizeEvent, call_id |-> MissingString,
   client_email |-> MissingString, windows |-> <<>>, payload |-> <<>>,
   analytics |-> NoAnalytics, put_error |-> FALSE,
   response |-> FinalizeError(0, ""), external |-> {}]

(***************************************************************************)
(* State.                                                                  *)
(***************************************************************************)
VARIABLES
  model_trace,     \* the trace handed to the extractor
  extraction,      \* what the extractor returned or raised for it
  call_records,    \* the call-records table: a set of window items
  call_analytics,  \* the call-analytics table: a set of analytics items
  inv,             \* the process-window invocations, by slot
  requests,        \* the process-window requests received so far
  fin,             \* the finalize-call invocation
  finalizes,       \* the finalize-call requests received so far
  now              \* the clock that created_at is read from

evars == <<model_trace, extraction>>
svars == <<call_records, call_analytics>>
fvars == <<fin, finalizes, now>>
vars == <<model_trace, extraction, call_records, call_analytics, inv, requests,
          fin, finalizes, now>>

NotRun == [ok |-> FALSE, calls |-> <<>>, err |-> "not run"]

\* the invocations a run can hold: a warm instance serves one request after
\* another in slot 1, concurrent instances take one slot per request
Slots == 1..MaxRequests

\* an invocation's local variables; `external` lists the collaborator calls
\* it has made, `agent_response` is what agent.invoke gave it, `put_error`
\* says that its put_item ended in a ClientError, `read_errors` names the
\* reads that did, and `after` holds the slots whose invocation had returned
\* when this one's request arrived
IdleInvocation ==
  [pc |-> "idle", event |-> BadBodyEvent, call_id |-> "", window_num |-> 0,
   turns |-> <<>>, client_email |-> "", history_items |-> <<>>,
   call_history |-> <<>>, past_call_summary |-> EmptyDict, ai_tips |-> <<>>,
   agent_response |-> NoAgentResponse, activity_feed |-> <<>>,
   put_error |-> FALSE, read_errors |-> {}, response |-> NoResponse,
   external |-> {}, after |-> {}]

InitStores == call_records = {} /\ call_analytics = {}
InitWindows == inv = [i \in Slots |-> IdleInvocation] /\ requests = 0
InitTrace == model_trace = <<>> /\ extraction = NotRun
InitFinalize == fin = IdleFinalize /\ finalizes = 0 /\ now = 0

(***************************************************************************)
(* The extractor applied to every bounded trace.                           *)
(***************************************************************************)

\* the entries a trace is built from
RECURSIVE SeqsUpTo(_, _)
SeqsUpTo(S, n) ==
  IF n = 0 THEN {<<>>}
  ELSE LET shorter == SeqsUpTo(S, n - 1)
       IN shorter \cup {Append(q, x) : q \in {p \in shorter : Len(p) = n - 1}, x \in S}

RECURSIVE CountActions(_, _)
CountActions(messages, i) ==
  IF i > Len(messages) THEN 0
  ELSE Len(messages[i].tool_calls) + CountActions(messages, i + 1)

Entries(room) ==
  {AIMessage(calls) : calls \in SeqsUpTo(Actions, room)}
    \cup {ToolMessage(id, c) : id \in ToolCallIds, c \in Contents}
    \cup {HumanMessage}

InitExtract == InitTrace /\ InitStores /\ InitWindows /\ InitFinalize

\* the agent run appends one more entry to the trace
AppendEntry ==
  /\ extraction = NotRun
  /\ Len(model_trace) < MaxTraceLen
  /\ \E e \in Entries(MaxActions - CountActions(model_trace, 1)) :
       model_trace' = Append(model_trace, e)
  /\ UNCHANGED <<extraction, svars, inv, requests, fvars>>

\* Agent.analyze_transcript, line 186: the extractor is applied to the trace
Extract ==
  /\ extraction = NotRun
  /\ extraction' = extract_tool_calls_from_trace(model_trace)
  /\ UNCHANGED <<model_trace, svars, inv, requests, fvars>>

NextExtract == AppendEntry \/ Extract
SpecExtract == InitExtract /\ [][NextExtract]_vars

(***************************************************************************)
(* lambda_handler of lambda_function.py, one action per step.  Each step   *)
(* that calls a collaborator is atomic; a store call may end in a          *)
(* ClientError.                                                            *)
(***************************************************************************)
\* lines 66-75: parse and validate; 400 on KeyError, ValueError, TypeError.
\* The locals of a finalize invocation that has returned are gone by now.
Receive(i, event) ==
  /\ inv[i].pc \in {"idle", "done"}
  /\ requests < MaxRequests
  /\ requests' = requests + 1
  /\ LET p == ParseEvent(event)
         returned == {j \in Slots : inv[j].pc = "done"}
     IN inv' = [inv EXCEPT ![i] =
          IF p.ok
          THEN [IdleInvocation EXCEPT !.pc = "get_history", !.event = event,
                  !.call_id = p.call_id, !.window_num = p.window_num,
                  !.turns = p.turns, !.client_email = p.client_email,
                  !.after = returned]
          ELSE [IdleInvocation EXCEPT !.pc = "done", !.event = event,
                  !.response = ErrorResponse(400, "Bad request: missing or invalid fields"),
                  !.after = returned]]
  /\ fin' = IF fin.pc = "done" THEN IdleFinalize ELSE fin
  /\ UNCHANGED <<evars, svars, finalizes, now>>

\* GetCallHistory letting the ClientError of the query end the invocation
GetCallHistoryRaises(i) ==
  /\ inv[i].pc = "get_history"
  /\ \E client_error \in BOOLEAN :
       LET items == get_call_history(call_records, inv[i].call_id,
                                     inv[i].window_num, FALSE)
       IN inv' = [inv EXCEPT ![i] =
            IF client_error
            THEN [@ EXCEPT !.pc = "done", !.read_errors = @ \cup {"history"},
                           !.response = ErrorResponse(500, "Database operation failed"),
                           !.external = @ \cup {"query call-records"}]
            ELSE [@ EXCEPT !.pc = "get_summary", !.history_items = items,
                           !.call_history = BuildCallHistory(items),
                           !.external = @ \cup {"query call-records"}]]
  /\ UNCHANGED <<evars, svars, requests, fvars>>

\* lines 77-85: the history read and the call_history built from it
GetCallHistory(i) ==
  /\ inv[i].pc = "get_history"
  /\ \E client_error \in BOOLEAN :
       LET items == get_call_history(call_records, inv[i].call_id,
                                     inv[i].window_num, client_error)
       IN inv' = [inv EXCEPT ![i].pc = "get_summary",
                             ![i].history_items = items,
                             ![i].call_history = BuildCallHistory(items),
                             ![i].read_errors =
                                IF client_error THEN @ \cup {"history"} ELSE @,
                             ![i].external = @ \cup {"query call-records"}]
  /\ UNCHANGED <<evars, svars, requests, fvars>>

\* GetPastCallSummary reading items[0] of an empty Items list, an IndexError
\* that nothing catches
GetPastCallSummaryIndexError(i) ==
  /\ inv[i].pc = "get_summary"
  /\ \E client_error \in BOOLEAN :
       \E first \in IF call_analytics = {} THEN {EmptyDict} ELSE call_analytics :
         inv' = [inv EXCEPT ![i] =
           IF ~client_error /\ (call_analytics = {} \/ first.client_email # inv[i].client_email)
           THEN [@ EXCEPT !.pc = "done",
                          !.response = ErrorResponse(500, "Internal server error"),
                          !.external = @ \cup {"scan call-analytics"}]
           ELSE [@ EXCEPT !.pc = "invoke",
                   !.past_call_summary =
                      get_past_call_summary(call_analytics, first,
                                            inv[i].client_email, client_error),
                   !.read_errors = IF client_error THEN @ \cup {"summary"} ELSE @,
                   !.external = @ \cup {"scan call-analytics"}]]
  /\ UNCHANGED <<evars, svars, requests, fvars>>

\* lines 87-88: the analytics read
GetPastCallSummary(i) ==
  /\ inv[i].pc = "get_summary"
  /\ \E client_error \in BOOLEAN :
       \E first \in IF call_analytics = {} THEN {EmptyDict} ELSE call_analytics :
         inv' = [inv EXCEPT ![i].pc = "invoke",
                   ![i].past_call_summary =
                      get_past_call_summary(call_analytics, first,
                                            inv[i].client_email, client_error),
                   ![i].read_errors =
                      IF client_error THEN @ \cup {"summary"} ELSE @,
                   ![i].external = @ \cup {"scan call-analytics"}]
  /\ UNCHANGED <<evars, svars, requests, fvars>>

\* InvokeAgent going on to the write with nothing computed when the agent fails
InvokeAgentIgnoresFailure(i) ==
  /\ inv[i].pc = "invoke"
  /\ \E response \in AgentResponses :
       LET r == analyze_transcript(response)
       IN inv' = [inv EXCEPT ![i].pc = "persist", ![i].ai_tips = r.ai_tips,
                             ![i].activity_feed = r.tool_calls,
                             ![i].agent_response = response,
                             ![i].external = @ \cup {"agent"}]
  /\ UNCHANGED <<evars, svars, requests, fvars>>

\* lines 90-109: the reasoning invocation, 502 on any exception
InvokeAgent(i) ==
  /\ inv[i].pc = "invoke"
  /\ \E response \in AgentResponses :
       LET r == analyze_transcript(response)
       IN inv' = [inv EXCEPT ![i] =
            IF r.ok
            THEN [@ EXCEPT !.pc = "persist", !.ai_tips = r.ai_tips,
                           !.activity_feed = r.tool_calls,
                           !.agent_response = response,
                           !.external = @ \cup {"agent"}]
            ELSE [@ EXCEPT !.pc = "done",
                           !.agent_response = response,
                           !.response = ErrorResponse(502, "Agent processing error"),
                           !.external = @ \cup {"agent"}]]
  /\ UNCHANGED <<evars, svars, requests, fvars>>

\* Persist answering 500 when put_item ends in a ClientError
PersistFailsOnPutError(i) ==
  /\ inv[i].pc = "persist"
  /\ \E client_error \in BOOLEAN :
       /\ call_records' =
            IF client_error THEN call_records
            ELSE PutItem(call_records,
                         WindowItem(inv[i].call_id, inv[i].window_num, inv[i].turns,
                                    inv[i].ai_tips, inv[i].activity_feed))
       /\ inv' = [inv EXCEPT ![i].pc = "done",
                    ![i].put_error = client_error,
                    ![i].response =
                       IF client_error THEN ErrorResponse(500, "Database operation failed")
                       ELSE ResultResponse(inv[i].ai_tips, inv[i].activity_feed),
                    ![i].external = @ \cup {"put call-records"}]
  /\ UNCHANGED <<evars, call_analytics, requests, fvars>>

\* lines 111-129: the write, whose ClientError is logged, and the response
Persist(i) ==
  /\ inv[i].pc = "persist"
  /\ \E client_error \in BOOLEAN :
       /\ call_records' =
            IF client_error THEN call_records
            ELSE PutItem(call_records,
                         WindowItem(inv[i].call_id, inv[i].window_num, inv[i].turns,
                                    inv[i].ai_tips, inv[i].activity_feed))
       /\ inv' = [inv EXCEPT ![i].pc = "done",
                    ![i].put_error = client_error,
                    ![i].response = ResultResponse(inv[i].ai_tips, inv[i].activity_feed),
                    ![i].external = @ \cup {"put call-records"}]
  /\ UNCHANGED <<evars, call_analytics, requests, fvars>>

(***************************************************************************)
(* lambda_handler of post-call-analytics.py, one action per step.  The     *)
(* whole body is in one try: KeyError, ValueError and TypeError give 400,  *)
(* ClientError and any other exception give 500.                           *)
(***************************************************************************)
Quiet == fin.pc \in {"idle", "done"} /\ \A i \in Slots : inv[i].pc \in {"idle", "done"}

\* lines 30-32
FinalizeReceive(event) ==
  /\ Quiet
  /\ finalizes < MaxFinalizes
  /\ finalizes' = finalizes + 1
  /\ fin' = IF Decodable(event.body)
            THEN [IdleFinalize EXCEPT !.pc = "query", !.event = event,
                    !.call_id = Loads(event.body).call_id,
                    !.client_email = Loads(event.body).client_email]
            ELSE [IdleFinalize EXCEPT !.pc = "done", !.event = event,
                    !.response = FinalizeError(400, "Bad request: missing or invalid fields")]
  /\ UNCHANGED <<evars, svars, inv, requests, now>>

\* lines 35-48: the query, which the store refuses for a key of None
FinalizeQuery ==
  /\ fin.pc = "query"
  /\ \E client_error \in BOOLEAN :
       fin' = IF client_error \/ ~fin.call_id.present
              THEN [fin EXCEPT !.pc = "done",
                      !.response = FinalizeError(500, "Database operation failed"),
                      !.external = @ \cup {"query call-records"}]
              ELSE LET windows == QueryCall(call_records, fin.call_id.v)
                   IN [fin EXCEPT !.pc = "summarize", !.windows = windows,
                         !.payload = BuildPayload(windows),
                         !.external = @ \cup {"query call-records"}]
  /\ UNCHANGED <<evars, svars, inv, requests, finalizes, now>>

\* lines 51-58
FinalizeSummarize ==
  /\ fin.pc = "summarize"
  /\ \E a \in SummaryOutcomes :
       fin' = IF a.outcome = "ok"
              THEN [fin EXCEPT !.pc = "persist", !.analytics = a,
                      !.external = @ \cup {"summarize"}]
              ELSE IF a.outcome = "OutputParserException"
              THEN [fin EXCEPT !.pc = "done",
                      !.response = FinalizeError(400, "Bad request: missing or invalid fields"),
                      !.external = @ \cup {"summarize"}]
              ELSE [fin EXCEPT !.pc = "done",
                      !.response = FinalizeError(500, "Internal server error"),
                      !.external = @ \cup {"summarize"}]
  /\ UNCHANGED <<evars, svars, inv, requests, finalizes, now>>

\* FinalizePersist logging the ClientError of put_item and answering 200
FinalizePersistSwallowsPutError ==
  /\ fin.pc = "persist"
  /\ \E client_error \in BOOLEAN :
       IF client_error \/ ~fin.client_email.present
       THEN /\ fin' = [fin EXCEPT !.pc = "done", !.put_error = TRUE,
                         !.response = FinalizeResult(fin.analytics),
                         !.external = @ \cup {"put call-analytics"}]
            /\ UNCHANGED <<call_analytics, now>>
       ELSE /\ call_analytics' =
                 PutAnalytics(call_analytics,
                              AnalyticsItem(fin.client_email.v, now, fin.call_id.v,
                                            fin.analytics))
            /\ now' = now + 1
            /\ fin' = [fin EXCEPT !.pc = "done",
                         !.response = FinalizeResult(fin.analytics),
                         !.external = @ \cup {"put call-analytics"}]
  /\ UNCHANGED <<evars, call_records, inv, requests, finalizes>>

\* lines 60-73: the write, which the store refuses for a key of None; its
\* ClientError is caught at line 78
FinalizePersist ==
  /\ fin.pc = "persist"
  /\ \E client_error \in BOOLEAN :
       IF client_error \/ ~fin.client_email.present
       THEN /\ fin' = [fin EXCEPT !.pc = "done", !.put_error = TRUE,
                         !.response = FinalizeError(500, "Database operation failed"),
                         !.external = @ \cup {"put call-analytics"}]
            /\ UNCHANGED <<call_analytics, now>>
       ELSE /\ call_analytics' =
                 PutAnalytics(call_analytics,
                              AnalyticsItem(fin.client_email.v, now, fin.call_id.v,
                                            fin.analytics))
            /\ now' = now + 1
            /\ fin' = [fin EXCEPT !.pc = "done",
                         !.response = FinalizeResult(fin.analytics),
                         !.external = @ \cup {"put call-analytics"}]
  /\ UNCHANGED <<evars, call_records, inv, requests, finalizes>>

\* the window processor serving one request after another
NextRequest == Quiet /\ \E event \in ValidEvents \cup EdgeEvents : Receive(1, event)
HistoryStep == GetCallHistory(1)
SummaryStep == GetPastCallSummary(1)
AgentStep == InvokeAgent(1)
PersistStep == Persist(1)

Init == InitTrace /\ InitStores /\ InitWindows /\ InitFinalize
Next == NextRequest \/ HistoryStep \/ SummaryStep \/ AgentStep \/ PersistStep
Spec == Init /\ [][Next]_vars

\* the windows of a call and its finalization, one request after another;
\* the run holds one finalize-call request
NextWindow == Quiet /\ \E event \in CallEvents : Receive(1, event)
NextFinalize == finalizes = 0 /\ \E event \in FinalizeEvents : FinalizeReceive(event)
NextCall ==
  \/ NextWindow \/ HistoryStep \/ SummaryStep \/ AgentStep \/ PersistStep
  \/ NextFinalize \/ FinalizeQuery \/ FinalizeSummarize \/ FinalizePersist
SpecCall == Init /\ [][NextCall]_vars

\* a customer's first windows and the finalizations of calls, one request
\* after another
FirstWindowEvents ==
  {Event(Payload(Present("c1"), RawInt(0), Present(SomeTurns), Present(ClientEmail)))}
NextFirstWindow == Quiet /\ \E event \in FirstWindowEvents : Receive(1, event)
NextFinalizeAny == \E event \in FinalizeEvents : FinalizeReceive(event)
NextMemory ==
  \/ NextFirstWindow \/ HistoryStep \/ SummaryStep \/ AgentStep \/ PersistStep
  \/ NextFinalizeAny \/ FinalizeQuery \/ FinalizeSummarize \/ FinalizePersist
SpecMemory == Init /\ [][NextMemory]_vars

\* concurrent instances of the window processor, each request of call c1
\* served by an instance of its own, at most two at a time, with the store
\* answering every call and the reasoning service giving one of three answers
InFlight == {i \in Slots : inv[i].pc \notin {"idle", "done"}}
StoreAnswers(i) == inv'[i].read_errors = {} /\ ~inv'[i].put_error
ConcRequest ==
  /\ Cardinality(InFlight) <= 1
  /\ requests < MaxRequests
  /\ \E event \in CallEvents : Receive(requests + 1, event)
ConcHistory == \E i \in Slots : GetCallHistory(i) /\ StoreAnswers(i)
ConcSummary == \E i \in Slots : GetPastCallSummary(i) /\ StoreAnswers(i)
ConcResponses ==
  {AgentResponse(<<TipA>>, TraceNoTools), AgentResponse(<<TipB>>, TraceMatched),
   AgentFailure}
ConcAgent == \E i \in Slots : InvokeAgent(i) /\ inv'[i].agent_response \in ConcResponses
ConcPersist == \E i \in Slots : Persist(i) /\ StoreAnswers(i)
NextConc == ConcRequest \/ ConcHistory \/ ConcSummary \/ ConcAgent \/ ConcPersist
SpecConc == Init /\ [][NextConc]_vars

(***************************************************************************)
(* Properties of the extractor, checked under SpecExtract.                 *)
(***************************************************************************)
\* the requested actions of a trace in request order, each with the index of
\* its assistant entry
RECURSIVE RequestedFrom(_, _)
RequestedFrom(messages, i) ==
  IF i > Len(messages) THEN <<>>
  ELSE [j \in 1..Len(messages[i].tool_calls) |->
          [i |-> i, call |-> messages[i].tool_calls[j]]]
       \o RequestedFrom(messages, i + 1)
Requested == RequestedFrom(model_trace, 1)

Matched(r) == NextMatches(model_trace, r.i, r.call)
ResultOf(r) == Loads(model_trace[r.i + 1].content)
\* the result entry after r carries decodable content with the fields of a
\* result of r's tool
WellFormedResult(r) ==
  /\ Decodable(model_trace[r.i + 1].content)
  /\ ResultOf(r).status \in {"success", "failed"}
  /\ ResultOf(r).message # Absent
  /\ (r.call.name = ManualsTool /\ ResultOf(r).status = "success")
       => ResultOf(r).sources # Absent

EveryActionPaired ==
  \A k \in 1..Len(Requested) :
    /\ Len(model_trace[Requested[k].i].tool_calls) = 1
    /\ Matched(Requested[k])
    /\ WellFormedResult(Requested[k])

EveryMatchWellFormed ==
  \A k \in 1..Len(Requested) : Matched(Requested[k]) => WellFormedResult(Requested[k])

\* C1: when every requested action sits in its own assistant entry that is
\* immediately followed by its well-formed result entry, the extractor
\* returns one record per action, in request order, each with the status
\* of its matched result.
C1_PairedTraceRecords ==
  (extraction # NotRun /\ EveryActionPaired) =>
    /\ extraction.ok
    /\ Len(extraction.calls) = Len(Requested)
    /\ \A k \in 1..Len(Requested) :
         /\ extraction.calls[k].name = Requested[k].call.name
         /\ extraction.calls[k].input = Dumps(Requested[k].call.args)
         /\ extraction.calls[k].status = ResultOf(Requested[k]).status

C1_Witness ==
  /\ extraction.ok
  /\ EveryActionPaired
  /\ Len(Requested) = 2
  /\ extraction.calls[1].input # extraction.calls[2].input
  /\ extraction.calls[1].name # extraction.calls[2].name
  /\ extraction.calls[1].status = "failed"
  /\ extraction.calls[2].status = "success"

\* json.dumps("")
EmptyOutput == Dumps(JStr(""))

\* C2: for every requested action whose following entry is absent or carries
\* another tool_call_id, the extractor raises nothing and emits a record for
\* the action with status success and an empty output.  (Stated over the
\* traces whose matched results are all well-formed.)
C2_UnmatchedActionDefaults ==
  (extraction # NotRun /\ EveryMatchWellFormed) =>
    \A k \in 1..Len(Requested) :
      ~Matched(Requested[k]) =>
        /\ extraction.ok
        /\ Len(extraction.calls) >= k
        /\ extraction.calls[k].input = Dumps(Requested[k].call.args)
        /\ extraction.calls[k].status = "success"
        /\ extraction.calls[k].output = EmptyOutput

\* C3: the output of a matched action's record is the result's sources
\* field exactly when the tool is search_company_manuals and the result's
\* status is success, and the result's message field otherwise.
C3_MatchedOutputField ==
  extraction.ok =>
    \A k \in 1..Len(Requested) :
      Matched(Requested[k]) =>
        LET res == ResultOf(Requested[k])
            manuals_success ==
              Requested[k].call.name = ManualsTool /\ res.status = "success"
        IN /\ manuals_success => extraction.calls[k].output = Dumps(res.sources)
           /\ ~manuals_success => extraction.calls[k].output = Dumps(res.message)
           /\ (extraction.calls[k].output = Dumps(res.sources)) <=> manuals_success

C3_Witness ==
  /\ extraction.ok
  /\ \E k \in 1..Len(Requested) :
       /\ Matched(Requested[k])
       /\ Requested[k].call.name = ManualsTool
       /\ ResultOf(Requested[k]).status = "success"
       /\ extraction.calls[k].output = Dumps(JList(<<"manual">>))
  /\ \E k \in 1..Len(Requested) :
       /\ Matched(Requested[k])
       /\ Requested[k].call.name # ManualsTool
       /\ ResultOf(Requested[k]).status = "success"
       /\ ResultOf(Requested[k]).sources # Absent
       /\ extraction.calls[k].output = Dumps(JStr("msg"))

\* what a record may carry as output when it is derived from the action's
\* own result: the serialised sources or message field of that result
OwnOutputs(r) ==
  {Dumps(f) : f \in {ResultOf(r).sources, ResultOf(r).message} \ {Absent}}

\* C21: for every trace, also one whose assistant entry requests several
\* actions before their results, the extractor emits exactly one record per
\* requested action, and no record carries an output or status of a result
\* entry with another tool_call_id: the output of a record is derived from
\* the action's own matching result, or is empty.  (Stated over the traces
\* whose matched results are all well-formed.)
C21_OneRecordFromOwnResult ==
  (extraction # NotRun /\ EveryMatchWellFormed) =>
    /\ extraction.ok
    /\ Len(extraction.calls) = Len(Requested)
    /\ \A k \in 1..Len(Requested) :
         /\ extraction.calls[k].name = Requested[k].call.name
         /\ extraction.calls[k].input = Dumps(Requested[k].call.args)
         /\ IF Matched(Requested[k])
            THEN /\ extraction.calls[k].output \in OwnOutputs(Requested[k])
                 /\ extraction.calls[k].status = ResultOf(Requested[k]).status
            ELSE extraction.calls[k].output = EmptyOutput

(***************************************************************************)
(* Properties of the process-window handler, checked under Spec.           *)
(***************************************************************************)
\* the payload of the request an invocation is serving
RequestOf(v) == Loads(v.event.body)
Received(v) == v.pc # "idle"
HistoryRead(v) == "query call-records" \in v.external
Rejected(v) ==
  /\ v.pc = "done"
  /\ v.response = ErrorResponse(400, "Bad request: missing or invalid fields")
  /\ v.external = {}

\* C4: the call_history built for (call_id, N) consists only of stored
\* windows of that call_id with window_number below N, in strictly
\* increasing window_number order.
C4_HistoryOfEarlierWindows ==
  \A i \in Slots :
    HistoryRead(inv[i]) =>
      LET h == inv[i].history_items
      IN /\ \A k \in 1..Len(h) :
              /\ h[k] \in call_records
              /\ h[k].call_id = inv[i].call_id
              /\ h[k].window_number < inv[i].window_num
         /\ \A k \in 1..(Len(h) - 1) : h[k].window_number < h[k + 1].window_number
         /\ Len(inv[i].call_history) = Len(h)
         /\ \A k \in 1..Len(h) :
              inv[i].call_history[k] =
                [turns |-> h[k].turns.val, aiTips |-> h[k].aiTips.val,
                 activityFeed |-> h[k].activityFeed.val]

C4_Witness ==
  /\ inv[1].pc = "get_summary"
  /\ Len(inv[1].history_items) = 2
  /\ inv[1].call_history[1].aiTips # inv[1].call_history[2].aiTips

\* C6: a request that lacks a required field, or whose window_num is not
\* an integer, is answered 400 with no collaborator called.
C6_MalformedRequestRejected ==
  \A i \in Slots :
    (/\ Received(inv[i])
     /\ \/ ~Decodable(inv[i].event.body)
        \/ ~RequestOf(inv[i]).call_id.present
        \/ ~RequestOf(inv[i]).window_num.present
        \/ ~RequestOf(inv[i]).turns.present
        \/ ~RequestOf(inv[i]).client_email.present
        \/ RequestOf(inv[i]).window_num.kind # "int")
      => Rejected(inv[i])

\* C7: a request whose window_num is a negative integer, or whose turns is
\* an empty sequence, is answered 400 with no collaborator called.
C7_NegativeOrEmptyRejected ==
  \A i \in Slots :
    (/\ Received(inv[i])
     /\ Decodable(inv[i].event.body)
     /\ \/ /\ RequestOf(inv[i]).window_num.kind = "int"
           /\ RequestOf(inv[i]).window_num.n < 0
        \/ /\ RequestOf(inv[i]).turns.present
           /\ RequestOf(inv[i]).turns.v = <<>>)
      => Rejected(inv[i])

\* a request with valid call_id, window_num and turns and no client_email
LacksOnlyEmail(v) ==
  /\ Received(v)
  /\ Decodable(v.event.body)
  /\ RequestOf(v).call_id.present
  /\ RequestOf(v).window_num.kind = "int"
  /\ RequestOf(v).window_num.n >= 0
  /\ RequestOf(v).turns.present
  /\ RequestOf(v).turns.v # <<>>
  /\ ~RequestOf(v).client_email.present

DecodeFails(messages) ==
  \E i \in 1..(Len(messages) - 1) :
    /\ messages[i].tool_calls # <<>>
    /\ messages[i + 1].type = "tool"
    /\ \E j \in 1..Len(messages[i].tool_calls) :
         messages[i].tool_calls[j].id = messages[i + 1].tool_call_id
    /\ ~messages[i + 1].content.wf
AgentFailed(v) == v.agent_response.raises \/ DecodeFails(v.agent_response.messages)

\* C9: when the reasoning invocation fails or a result entry cannot be
\* decoded, the handler answers 502 with no aiTips or activityFeed and the
\* invocation writes nothing to the window store.
C9_AgentFailureWritesNothing ==
  [][\A i \in Slots :
       AgentFailed(inv'[i]) =>
         /\ inv'[i].pc = "done"
         /\ inv'[i].response = ErrorResponse(502, "Agent processing error")
         /\ inv'[i].response.aiTips = <<>> /\ inv'[i].response.activityFeed = <<>>
         /\ "put call-records" \notin inv'[i].external
         /\ inv[i].pc = "invoke" => call_records' = call_records]_vars

C9_Witness ==
  /\ inv[1].pc = "done"
  /\ DecodeFails(inv[1].agent_response.messages)
  /\ inv[1].response.statusCode = 502
  /\ call_records # {}

HasKey(table, call_id, window_num) ==
  \E it \in table : it.call_id = call_id /\ it.window_number = window_num

\* C10: when put_item fails after a successful reasoning invocation, the
\* handler answers 200 with exactly the computed aiTips and activityFeed,
\* ends without another write, and leaves the store as it was: a window
\* that was absent stays absent, and the history a later window of the call
\* would read is unchanged.
C10_PutFailureStillSucceeds ==
  [][\A i \in Slots :
       (inv[i].pc = "persist" /\ inv'[i].pc # "persist" /\ inv'[i].put_error) =>
         /\ inv'[i].pc = "done"
         /\ inv'[i].response.statusCode = 200
         /\ inv'[i].response.aiTips = inv[i].ai_tips
         /\ inv'[i].response.activityFeed = inv[i].activity_feed
         /\ call_records' = call_records
         /\ HasKey(call_records', inv[i].call_id, inv[i].window_num)
              = HasKey(call_records, inv[i].call_id, inv[i].window_num)
         /\ \A w \in WindowNumbers :
              QueryBefore(call_records', inv[i].call_id, w)
                = QueryBefore(call_records, inv[i].call_id, w)]_vars

C10_Witness ==
  /\ inv[1].pc = "done"
  /\ inv[1].put_error
  /\ inv[1].response.statusCode = 200
  /\ inv[1].response.aiTips = <<TipB>>
  /\ Len(inv[1].response.activityFeed) = 1
  /\ ~HasKey(call_records, inv[1].call_id, inv[1].window_num)
  /\ inv[1].window_num = 0
  /\ HasKey(call_records, inv[1].call_id, 1)

(***************************************************************************)
(* Properties of the finalize-call handler, checked under SpecCall.        *)
(***************************************************************************)
\* the stored windows of a call
WindowsOf(call_id) == {it \in call_records : it.call_id = call_id}
\* the place of a window among those of its call, by window_number
RankOf(win) ==
  1 + Cardinality({o \in WindowsOf(win.call_id) : o.window_number < win.window_number})

\* C5: the timeline handed to the summarization service lists the stored
\* windows of the call in ascending window_number order, each with its
\* aiTips, activityFeed and turns as persisted, whatever the order in which
\* the windows were written.
C5_TimelineInWindowOrder ==
  [][(fin.pc = "query" /\ fin'.pc = "summarize") =>
       /\ Len(fin'.payload) = Cardinality(WindowsOf(fin.call_id.v))
       /\ \A win \in WindowsOf(fin.call_id.v) :
            fin'.payload[RankOf(win)] =
              [activityFeed |-> win.activityFeed.val, aiTips |-> win.aiTips.val,
               turns |-> win.turns.val]]_vars

\* windows persisted with window 0 last, tips B, C for windows 1, 2 and A
\* for window 0: the timeline reads A, B, C
C5_Witness ==
  /\ fin.pc = "summarize"
  /\ Len(fin.payload) = 3
  /\ fin.payload[1].aiTips = <<TipA>>
  /\ fin.payload[2].aiTips = <<TipB>>
  /\ fin.payload[3].aiTips = <<TipC>>
  /\ Len(fin.payload[2].activityFeed) = 1
  /\ fin.payload[1].turns = SomeTurns
  /\ inv[1].pc = "done"
  /\ inv[1].window_num = 0
  /\ ~inv[1].put_error
  /\ inv[1].response.aiTips = <<TipA>>
  /\ requests = 3

\* the finalize invocation got a valid AnalyticsOutput and its put_item failed
WriteFailed(f) == f.pc = "done" /\ f.analytics.outcome = "ok" /\ f.put_error

\* C11, as claimed: when the analytics write fails after the summarization
\* service returned a valid AnalyticsOutput, the handler still answers 200
\* with that AnalyticsOutput.
C11_WriteFailureStillReturns ==
  WriteFailed(fin) => fin.response = FinalizeResult(fin.analytics)

\* C11, amended: when the analytics write fails after the summarization
\* service returned a valid AnalyticsOutput, the handler answers 500
\* "Database operation failed" without the AnalyticsOutput, and the
\* analytics store is left as it was.
C11_WriteFailureFails ==
  [][(fin.pc = "persist" /\ WriteFailed(fin')) =>
       /\ fin'.response = FinalizeError(500, "Database operation failed")
       /\ fin'.response.body = NoAnalytics
       /\ call_analytics' = call_analytics]_vars

C11_Witness ==
  /\ WriteFailed(fin)
  /\ fin.client_email.present
  /\ fin.windows # <<>>
  /\ fin.analytics.memory.present
  /\ fin.response.statusCode = 500
  /\ call_analytics = {}

\* the summarization service was invoked and gave no AnalyticsOutput
SummarizeFailed(f) ==
  f.pc = "done" /\ "summarize" \in f.external /\ f.analytics.outcome # "ok"

\* C12: when the summarization service fails or its response cannot be
\* parsed, the handler answers with the upstream-failure status, which is
\* neither the bad-request status (400) nor the status of a store error
\* (500), and writes no analytics item.
C12_SummarizeFailureIsUpstream ==
  SummarizeFailed(fin) =>
    /\ fin.response.statusCode # 200
    /\ fin.response.statusCode # 400
    /\ fin.response.statusCode # FinalizeError(500, "Database operation failed").statusCode
    /\ "put call-analytics" \notin fin.external

\* C16: a finalize-call request without call_id or without client_email is
\* answered 400 with no query, no summarization and no write.
C16_FinalizeMissingFieldRejected ==
  (/\ fin.pc # "idle"
   /\ Decodable(fin.event.body)
   /\ \/ ~Loads(fin.event.body).call_id.present
      \/ ~Loads(fin.event.body).client_email.present)
    => /\ fin.pc = "done"
       /\ fin.response = FinalizeError(400, "Bad request: missing or invalid fields")
       /\ fin.external = {}

(***************************************************************************)
(* Properties of context building and of the analytics store.              *)
(***************************************************************************)
SummaryRead(v) == "scan call-analytics" \in v.external
\* the reasoning invocation returned and the extractor decoded its trace
AgentSucceeded(v) == "agent" \in v.external /\ ~AgentFailed(v)

RecordsOf(table, client_email) == {it \in table : it.client_email = client_email}
Newest(items) == CHOOSE x \in items : \A y \in items : y.created_at <= x.created_at
MemoryOf(item) == Loads(item.memory.text)

\* C14: when the analytics store holds several items, some of them of the
\* request's client_email, the past_call_summary read is the memory of the
\* item with the greatest created_at among those of that client_email.
C14_NewestMemoryOfClient ==
  [][\A i \in Slots :
       (/\ inv[i].pc = "get_summary" /\ inv'[i].pc = "invoke"
        /\ "summary" \notin inv'[i].read_errors
        /\ Cardinality(call_analytics) >= 2
        /\ RecordsOf(call_analytics, inv[i].client_email) # {})
         => inv'[i].past_call_summary =
              MemoryOf(Newest(RecordsOf(call_analytics, inv[i].client_email)))]_vars

PersistsAnalytics == fin.pc = "persist" /\ fin'.pc = "done" /\ ~fin'.put_error

\* C17: no step changes or removes a stored analytics item, and every
\* successful finalize adds one item for its customer, so that the items of
\* a customer number one more than before.
C17_FinalizeAddsNewRecord ==
  [][/\ call_analytics \subseteq call_analytics'
     /\ PersistsAnalytics =>
          LET mine == RecordsOf(call_analytics, fin.client_email.v)
              mine_after == RecordsOf(call_analytics', fin.client_email.v)
          IN /\ Cardinality(mine_after) = Cardinality(mine) + 1
             /\ mine \subseteq mine_after
             /\ \A it \in mine_after \ mine :
                  /\ it.call_id = fin.call_id.v
                  /\ MemoryOf(it) = fin.analytics.memory
                  /\ \A old \in mine : old.created_at < it.created_at
             /\ call_analytics' \ mine_after = call_analytics \ mine]_vars

\* two successful finalizes for one customer: two items, the first as written
C17_Witness ==
  /\ fin.pc = "done"
  /\ fin.response.statusCode = 200
  /\ Cardinality(RecordsOf(call_analytics, ClientEmail)) = 2
  /\ \E a, b \in RecordsOf(call_analytics, ClientEmail) :
       /\ a.created_at < b.created_at
       /\ a.keyInsights # b.keyInsights
       /\ b.keyInsights = fin.analytics.keyInsights

\* C18: the analytics store holds at most one item per call_id.
C18_OneRecordPerCall ==
  \A a, b \in call_analytics : a.call_id = b.call_id => a = b

(***************************************************************************)
(* Properties of concurrent window processing, checked under SpecConc,     *)
(* where the request numbered i is served in slot i.                       *)
(***************************************************************************)
Succeeded(j) == inv[j].pc = "done" /\ inv[j].response.statusCode = 200
\* what the caller got for request j, as an entry of a call_history
ReturnedEntry(j) ==
  [turns |-> inv[j].turns, aiTips |-> inv[j].response.aiTips,
   activityFeed |-> inv[j].response.activityFeed]
\* the entries of the requests 1..n that returned success, in request order
RECURSIVE ReturnedUpTo(_)
ReturnedUpTo(n) ==
  IF n = 0 THEN <<>>
  ELSE ReturnedUpTo(n - 1) \o (IF Succeeded(n) THEN <<ReturnedEntry(n)>> ELSE <<>>)
\* the requests made so far
Submitted == {j \in Slots : Received(inv[j])}
\* each request arrived after the responses to all before it
OneAtATime == \A j \in Submitted : inv[j].after = 1..(j - 1)
\* the requests carry increasing window numbers
IncreasingWindows ==
  \A j, k \in Submitted : j < k => inv[j].window_num < inv[k].window_num
NoStoreFailure == \A j \in Submitted : inv[j].read_errors = {} /\ ~inv[j].put_error

\* C19: when the windows of a call are submitted one at a time with
\* increasing window numbers and no store operation fails, the call_history
\* built for a request lists every earlier window that returned success,
\* in order, each with the aiTips and activityFeed returned to the caller.
\* (C19_Witness shows the other half: a request that arrives while the
\* window before it is in flight is given a history without that window.)
C19_SerialHistoryComplete ==
  (OneAtATime /\ IncreasingWindows /\ NoStoreFailure) =>
    \A i \in Slots :
      HistoryRead(inv[i]) => inv[i].call_history = ReturnedUpTo(i - 1)

\* window 0, then window 1 after its response, then window 2 while window 1
\* is in flight: window 1 is given window 0, window 2 is given window 0 only
\* although window 1 returned success and is stored
C19_Witness ==
  /\ inv[1].window_num = 0 /\ Succeeded(1)
  /\ inv[1].response.aiTips = <<TipB>>
  /\ Len(inv[1].response.activityFeed) = 1
  /\ inv[2].window_num = 1 /\ Succeeded(2)
  /\ inv[2].after = {1}
  /\ inv[2].call_history = <<ReturnedEntry(1)>>
  /\ inv[3].window_num = 2
  /\ inv[3].after = {1}
  /\ HistoryRead(inv[3])
  /\ inv[3].read_errors = {}
  /\ inv[3].call_history = <<ReturnedEntry(1)>>
  /\ HasKey(call_records, "c1", 1)

SameKey(a, b) == a.call_id = b.call_id /\ a.window_number = b.window_number

\* C20: the window store never holds two items of one (call_id,
\* window_number), and every put of an invocation is accepted whether or
\* not the key is taken: the invocation returns 200 with its own results,
\* its item is the one stored under the key afterwards, and the items of
\* the other keys stay as they were.
C20_LastWriterWins ==
  [][/\ \A a, b \in call_records' : SameKey(a, b) => a = b
     /\ \A i \in Slots :
          (inv[i].pc = "persist" /\ inv'[i].pc = "done") =>
            LET item == WindowItem(inv[i].call_id, inv[i].window_num, inv[i].turns,
                                   inv[i].ai_tips, inv[i].activity_feed)
            IN /\ inv'[i].response =
                    ResultResponse(inv[i].ai_tips, inv[i].activity_feed)
               /\ item \in call_records'
               /\ \A it \in call_records' : SameKey(it, item) => it = item
               /\ {it \in call_records' : ~SameKey(it, item)}
                    = {it \in call_records : ~SameKey(it, item)}]_vars

\* two invocations of window 0 in flight together: both returned 200 with
\* different tips, and the store holds the item of the first request, which
\* wrote last
C20_Witness ==
  /\ inv[1].window_num = 0 /\ inv[2].window_num = 0
  /\ inv[2].after = {}
  /\ Succeeded(1) /\ Succeeded(2)
  /\ inv[1].response.aiTips = <<TipA>>
  /\ inv[2].response.aiTips = <<TipB>>
  /\ ~inv[1].put_error /\ ~inv[2].put_error
  /\ call_records =
       {WindowItem("c1", 0, inv[1].turns, inv[1].ai_tips, inv[1].activity_feed)}
====
